---------------------------- MODULE Spec2Model ----------------------------
(***************************************************************************)
(* A model of the single-feature linear-regression pipeline:               *)
(*   libs/dataset/lineal_dataset.rs    DataSet::new, add_row, normalize    *)
(*   libs/gradient_descents/gradient.rs calculate_cost, gradient_descent   *)
(*   libs/models/lineal_regression.rs  LinealRegression::new, fit, predict *)
(*   libs/math/statistics.rs           Statistics::new, median, mode       *)
(*                                                                         *)
(* f64 values are modelled exactly.  A value is a triple <<n, d, r>>:      *)
(*   d > 0   the real number (n/d)*sqrt(r), n/d in lowest terms and r a    *)
(*           squarefree positive integer (zero is <<0, 1, 1>>);            *)
(*   d = 0   a non-finite f64: NaN <<0,0,1>>, +inf <<1,0,1>>,              *)
(*           -inf <<-1,0,1>>;                                              *)
(*   <<0,0,0>>  a real number that is not of the form above (a sum of      *)
(*           unlike square roots); operations that would produce it are    *)
(*           outside the model and the actions are not taken there.        *)
(* Rounding, overflow to infinity and the sign of zero are not modelled.   *)
(***************************************************************************)
EXTENDS Integers, Sequences, FiniteSets, TLC

-----------------------------------------------------------------------------
(* Bounds of the model. *)

\* datasets hold at most MaxLen samples
MaxLen == 2
\* gradient_descent runs at most MaxEpochs iterations
MaxEpochs == 2
\* Statistics::new is given at most MaxSeqLen numbers
MaxSeqLen == 4
\* fit is called at most MaxFits times on a model
MaxFits == 2

-----------------------------------------------------------------------------
(* Exact arithmetic on f64 values. *)

NaN == <<0, 0, 1>>
PosInf == <<1, 0, 1>>
NegInf == <<-1, 0, 1>>
Undef == <<0, 0, 0>>
Zero == <<0, 1, 1>>

IsNaN(a) == a = NaN
IsUndef(a) == a = Undef
IsFinite(a) == a[2] > 0

Abs(k) == IF k < 0 THEN -k ELSE k
Sign(k) == IF k < 0 THEN -1 ELSE IF k = 0 THEN 0 ELSE 1

\* F applied to the values of its arguments.  (TLC evaluates an operator's
\* argument expression at each use of the parameter; here it is evaluated
\* once.)
Eval1(F(_), x) == CHOOSE v \in {F(a) : a \in {x}} : TRUE
Eval2(F(_, _), x, y) == CHOOSE v \in {F(a, b) : a \in {x}, b \in {y}} : TRUE
Eval3(F(_, _, _), x, y, z) ==
    CHOOSE v \in {F(a, b, c) : a \in {x}, b \in {y}, c \in {z}} : TRUE

RECURSIVE Gcd(_, _)
GcdOf(a, b) == IF b = 0 THEN a ELSE Gcd(b, a % b)
Gcd(a, b) == Eval2(GcdOf, a, b)

\* the largest s with s*s dividing m (m >= 1), searched from s upwards
RECURSIVE SquarePartFrom(_, _)
SquarePartFromOf(m, s) ==
    IF s * s > m THEN 1
    ELSE IF m % (s * s) = 0 THEN s * SquarePartFrom(m \div (s * s), s)
    ELSE SquarePartFrom(m, s + 1)
SquarePartFrom(m, s) == Eval2(SquarePartFromOf, m, s)
SquarePart(m) == SquarePartFrom(m, 2)

\* the value (n/d)*sqrt(r) for integers n, d # 0, r >= 1, in normal form
NormOf(n, d, r) ==
    IF n = 0 THEN Zero
    ELSE LET s == SquarePart(r)
             g == Gcd(Abs(n * s), Abs(d))
         IN  <<(Sign(d) * n * s) \div g, Abs(d) \div g, r \div (s * s)>>
Norm(n, d, r) == Eval3(NormOf, n, d, r)

F64(k) == <<k, 1, 1>>
Rat(n, d) == Norm(n, d, 1)

NegOf(a) == IF IsUndef(a) THEN Undef ELSE <<-a[1], a[2], a[3]>>
Neg(a) == Eval1(NegOf, a)

AddOf(a, b) ==
    IF IsUndef(a) \/ IsUndef(b) THEN Undef
    ELSE IF IsNaN(a) \/ IsNaN(b) THEN NaN
    ELSE IF ~IsFinite(a) /\ ~IsFinite(b) THEN (IF a = b THEN a ELSE NaN)
    ELSE IF ~IsFinite(a) THEN a
    ELSE IF ~IsFinite(b) THEN b
    ELSE IF a = Zero THEN b
    ELSE IF b = Zero THEN a
    ELSE IF a[3] = b[3]
         THEN LET g == Gcd(a[2], b[2])
              IN  Norm(a[1] * (b[2] \div g) + b[1] * (a[2] \div g),
                       (a[2] \div g) * b[2], a[3])
    ELSE Undef
Add(a, b) == Eval2(AddOf, a, b)

Sub(a, b) == Add(a, Neg(b))

MulOf(a, b) ==
    IF IsUndef(a) \/ IsUndef(b) THEN Undef
    ELSE IF IsNaN(a) \/ IsNaN(b) THEN NaN
    ELSE IF ~IsFinite(a) \/ ~IsFinite(b)
         THEN (IF a = Zero \/ b = Zero THEN NaN
               ELSE IF Sign(a[1]) * Sign(b[1]) > 0 THEN PosInf ELSE NegInf)
    ELSE IF a = Zero \/ b = Zero THEN Zero
    ELSE LET g1 == Gcd(Abs(a[1]), b[2])
             g2 == Gcd(Abs(b[1]), a[2])
         IN  Norm((a[1] \div g1) * (b[1] \div g2),
                  (a[2] \div g2) * (b[2] \div g1), a[3] * b[3])
Mul(a, b) == Eval2(MulOf, a, b)

DivOf(a, b) ==
    IF IsUndef(a) \/ IsUndef(b) THEN Undef
    ELSE IF IsNaN(a) \/ IsNaN(b) THEN NaN
    ELSE IF ~IsFinite(a) /\ ~IsFinite(b) THEN NaN
    ELSE IF ~IsFinite(b) THEN Zero
    ELSE IF ~IsFinite(a)
         THEN (IF Sign(a[1]) * Sign(b[1]) >= 0 THEN PosInf ELSE NegInf)
    ELSE IF b = Zero
         THEN (IF a = Zero THEN NaN ELSE IF a[1] > 0 THEN PosInf ELSE NegInf)
    \* 1 / ((n/d) sqrt r) = d sqrt(r) / (n r)
    ELSE Mul(a, Norm(b[2], b[1] * b[3], b[3]))
Div(a, b) == Eval2(DivOf, a, b)

\* f64::powf(2.0)
Powf2Of(a) == Mul(a, a)
Powf2(a) == Eval1(Powf2Of, a)

\* f64::sqrt
SqrtOf(a) ==
    IF IsUndef(a) THEN Undef
    ELSE IF IsNaN(a) \/ a = NegInf THEN NaN
    ELSE IF a = PosInf THEN PosInf
    ELSE IF a[1] < 0 THEN NaN
    ELSE IF a = Zero THEN Zero
    ELSE IF a[3] # 1 THEN Undef
    ELSE Norm(1, a[2], a[1] * a[2])
Sqrt(a) == Eval1(SqrtOf, a)

\* the sign of a finite value, and of a difference of two finite values
SignOf(a) == Sign(a[1])
CmpFiniteOf(a, b) ==
    LET diff == Sub(a, b)
    IN  IF ~IsUndef(diff) THEN SignOf(diff)
        ELSE IF SignOf(a) # SignOf(b) THEN Sign(SignOf(a) - SignOf(b))
        ELSE SignOf(a) * SignOf(Sub(Powf2(a), Powf2(b)))

\* f64::partial_cmp: "none" when either side is NaN, else "lt", "eq", "gt"
PartialCmpOf(a, b) ==
    IF IsNaN(a) \/ IsNaN(b) THEN "none"
    ELSE IF a = b THEN "eq"
    ELSE IF a = NegInf \/ b = PosInf THEN "lt"
    ELSE IF a = PosInf \/ b = NegInf THEN "gt"
    ELSE IF CmpFiniteOf(a, b) < 0 THEN "lt" ELSE "gt"
PartialCmp(a, b) == Eval2(PartialCmpOf, a, b)

\* f64 ==
FEq(a, b) == PartialCmp(a, b) = "eq"

\* Iterator::sum::<f64>(): a left fold from 0.0 over the first k elements
RECURSIVE SumTo(_, _)
SumToOf(s, k) == IF k = 0 THEN Zero ELSE Add(SumTo(s, k - 1), s[k])
SumTo(s, k) == Eval2(SumToOf, s, k)
SumOf(s) == SumTo(s, Len(s))
Sum(s) == Eval1(SumOf, s)

\* usize as f64
AsF64(k) == F64(k)

-----------------------------------------------------------------------------
(* State. *)

VARIABLES
    \* the DataSet: [input, output, size] (main's training_data, then the
    \* model's training_data field)
    training_data,
    \* gradient_descent's parameters and calculate_cost's b and w
    num_iterations, learning_rate, initial_bias, initial_weight,
    \* gradient_descent's locals: bias, weight and the number of finished
    \* iterations of its for loop
    bias, weight, iter,
    \* where the caller of calculate_cost and gradient_descent is: "idle",
    \* "call_cost", "call_gd", "loop" (inside gradient_descent), "returned"
    gd_pc,
    \* the values returned: gradient_descent's pair, calculate_cost's f64
    \* (<<>> until the call has returned)
    gd_result, cost_result

VARIABLES
    \* the Vec<f64> the caller of Statistics::new owns
    data,
    \* the Statistics returned (<<>> until then)
    stats,
    \* where the caller of Statistics::new is: "idle", "call", "returned",
    \* "panicked"
    st_pc

VARIABLES
    \* where the program that builds and trains is: "idle", "start", "reading"
    \* and "parsing" (inside DataSet::new's loop over the lines), "dataset" (a
    \* DataSet exists), "model" (a LinealRegression owns it), "panicked"
    pc,
    \* DataSet::new's locals: the line in hand (a sequence of characters) and
    \* the two vectors
    line, input_vec, output_vec,
    \* the LinealRegression's b, w, cost and options (<<>> before
    \* LinealRegression::new)
    lineal_regression,
    \* the number of calls of fit
    fits,
    \* the number of times fit has called self.training_data.normalize(), which
    \* assigns both columns anew
    normalize_calls,
    \* the value the last predict returned (<<>> before the first)
    prediction

gd_vars == <<num_iterations, learning_rate, initial_bias, initial_weight,
             bias, weight, iter, gd_pc, gd_result, cost_result>>
stat_vars == <<data, stats, st_pc>>
new_vars == <<line, input_vec, output_vec>>
model_vars == <<lineal_regression, fits, normalize_calls, prediction>>
vars == <<training_data, gd_vars, stat_vars, pc, new_vars, model_vars>>

\* the parts of the state a specification does not use
GDIdle ==
    /\ num_iterations = 0 /\ learning_rate = Zero
    /\ initial_bias = Zero /\ initial_weight = Zero
    /\ bias = Zero /\ weight = Zero /\ iter = 0
    /\ gd_pc = "idle" /\ gd_result = <<>> /\ cost_result = <<>>
StatsIdle == data = <<>> /\ stats = <<>> /\ st_pc = "idle"
PipelineIdle ==
    /\ pc = "idle" /\ line = <<>> /\ input_vec = <<>> /\ output_vec = <<>>
    /\ lineal_regression = <<>> /\ fits = 0 /\ normalize_calls = 0 /\ prediction = <<>>

DataSet(input, output) == [input |-> input, output |-> output, size |-> Len(input)]

-----------------------------------------------------------------------------
(* libs/gradient_descents/gradient.rs *)

Min(a, b) == IF a < b THEN a ELSE b

\* a.iter().zip(b.iter()): pairs up to the shorter length
Zip(a, b) == [i \in 1..Min(Len(a), Len(b)) |-> <<a[i], b[i]>>]

\* the closure |(x, y)| b + (w * x) - y
Residual(b, w, x, y) == Sub(Add(b, Mul(w, x)), y)

\* data.output.iter().zip(data.input.iter()).map(|(x, y)| (b + (w * x) - y).powf(2.0))
SquaredErrors(b, w, ds) ==
    LET pairs == Zip(ds.output, ds.input)
    IN  [i \in DOMAIN pairs |-> Powf2(Residual(b, w, pairs[i][1], pairs[i][2]))]

CalculateCost(b, w, ds) ==
    LET squared_errors == Sum(SquaredErrors(b, w, ds))
    IN  IF ds.size = 0 THEN NaN
        ELSE Div(squared_errors, Mul(F64(2), AsF64(ds.size)))

\* .map(|(x, y)| bias + weight * x - y).sum()
BiasGradient(b, w, ds) ==
    LET pairs == Zip(ds.output, ds.input)
    IN  Sum([i \in DOMAIN pairs |-> Residual(b, w, pairs[i][1], pairs[i][2])])

\* .map(|(x, y)| (bias + weight * x - y) * x).sum()
WeightGradient(b, w, ds) ==
    LET pairs == Zip(ds.output, ds.input)
    IN  Sum([i \in DOMAIN pairs |->
                Mul(Residual(b, w, pairs[i][1], pairs[i][2]), pairs[i][1])])

\* the loop's body with the learning rate left out of the bias update
GradientStepNoRate(b, w, lr, ds) ==
    LET num_data_points == AsF64(ds.size)
        bias_gradient == BiasGradient(b, w, ds)
        weight_gradient == WeightGradient(b, w, ds)
    IN  << Sub(b, Div(bias_gradient, num_data_points)),
           Sub(w, Div(Mul(lr, weight_gradient), num_data_points)) >>

\* one pass of the for loop's body: the new <<bias, weight>>
GradientStep(b, w, lr, ds) ==
    LET num_data_points == AsF64(ds.size)
        bias_gradient == BiasGradient(b, w, ds)
        weight_gradient == WeightGradient(b, w, ds)
    IN  << Sub(b, Div(Mul(lr, bias_gradient), num_data_points)),
           Sub(w, Div(Mul(lr, weight_gradient), num_data_points)) >>

\* gradient_descent as a function: the loop body applied n times
RECURSIVE GradientDescent(_, _, _, _, _)
GradientDescent(n, lr, b, w, ds) ==
    IF n = 0 THEN <<b, w>>
    ELSE CHOOSE next \in {GradientStep(prev[1], prev[2], lr, ds) :
                              prev \in {GradientDescent(n - 1, lr, b, w, ds)}} : TRUE

-----------------------------------------------------------------------------
(* Inputs. *)

\* sample values
Vals == {F64(0), F64(1), F64(2)}
Columns(n) == [1..n -> Vals]
FiniteDataSets ==
    UNION {{DataSet(i, o) : i \in Columns(n), o \in Columns(n)} : n \in 0..MaxLen}
\* one-sample datasets holding a non-finite value
NonFiniteDataSets ==
    {DataSet(<<i>>, <<o>>) : i \in {F64(1), PosInf, NaN}, o \in {F64(1), PosInf, NaN}}
    \ {DataSet(<<F64(1)>>, <<F64(1)>>)}
DataSets == FiniteDataSets \cup NonFiniteDataSets
Rates == {Zero, Rat(1, 2)}
Params == {Zero, F64(1)}
Epochs == 0..MaxEpochs

-----------------------------------------------------------------------------
(* SpecGD: calculate_cost and gradient_descent called on any arguments. *)

InitGD ==
    /\ training_data \in DataSets
    /\ num_iterations \in Epochs
    /\ learning_rate \in Rates
    /\ initial_bias \in Params
    /\ initial_weight \in Params
    /\ bias = Zero
    /\ weight = Zero
    /\ iter = 0
    /\ gd_pc = "call_cost"
    /\ gd_result = <<>>
    /\ cost_result = <<>>
    /\ StatsIdle
    /\ PipelineIdle

\* calculate_cost(&initial_bias, &initial_weight, &training_data)
CalculateCostCall ==
    /\ gd_pc = "call_cost"
    /\ cost_result' = CalculateCost(initial_bias, initial_weight, training_data)
    /\ gd_pc' = "call_gd"
    /\ UNCHANGED <<pc, new_vars, model_vars, stat_vars, training_data, num_iterations, learning_rate, initial_bias,
                   initial_weight, bias, weight, iter, gd_result>>

\* gradient_descent is entered: let mut bias = *initial_bias; ...
GradientDescentEnter ==
    /\ gd_pc = "call_gd"
    /\ bias' = initial_bias
    /\ weight' = initial_weight
    /\ iter' = 0
    /\ gd_pc' = "loop"
    /\ UNCHANGED <<pc, new_vars, model_vars, stat_vars, training_data, num_iterations, learning_rate, initial_bias,
                   initial_weight, gd_result, cost_result>>

\* one iteration of for _ in 0..num_iterations
GradientDescentIterate ==
    /\ gd_pc = "loop"
    /\ iter < num_iterations
    /\ \E next \in {GradientStep(bias, weight, learning_rate, training_data)} :
           /\ bias' = next[1]
           /\ weight' = next[2]
    /\ iter' = iter + 1
    /\ UNCHANGED <<pc, new_vars, model_vars, stat_vars, training_data, num_iterations, learning_rate, initial_bias,
                   initial_weight, gd_pc, gd_result, cost_result>>

\* the loop is over: (bias, weight) is returned
GradientDescentReturn ==
    /\ gd_pc = "loop"
    /\ iter >= num_iterations
    /\ gd_result' = <<bias, weight>>
    /\ gd_pc' = "returned"
    /\ UNCHANGED <<pc, new_vars, model_vars, stat_vars, training_data, num_iterations, learning_rate, initial_bias,
                   initial_weight, bias, weight, iter, cost_result>>

NextGD ==
    \/ CalculateCostCall
    \/ GradientDescentEnter
    \/ GradientDescentIterate
    \/ GradientDescentReturn

SpecGD == InitGD /\ [][NextGD]_vars

-----------------------------------------------------------------------------
(* libs/dataset/lineal_dataset.rs *)

\* str::split(","): the fields of a line, at least one
RECURSIVE Split(_)
SplitOf(l) ==
    IF l = <<>> THEN << <<>> >>
    ELSE LET rest == Split(SubSeq(l, 1, Len(l) - 1))
             c == l[Len(l)]
         IN  IF c = "," THEN Append(rest, <<>>)
             ELSE [rest EXCEPT ![Len(rest)] = Append(rest[Len(rest)], c)]
Split(l) == Eval1(SplitOf, l)

DigitChars == {"0", "1", "2", "3", "4", "5", "6", "7", "8", "9"}
DigitValue(c) ==
    CASE c = "0" -> 0 [] c = "1" -> 1 [] c = "2" -> 2 [] c = "3" -> 3 [] c = "4" -> 4
      [] c = "5" -> 5 [] c = "6" -> 6 [] c = "7" -> 7 [] c = "8" -> 8 [] c = "9" -> 9

RECURSIVE Decimal(_)
Decimal(f) ==
    IF f = <<>> THEN 0
    ELSE 10 * Decimal(SubSeq(f, 1, Len(f) - 1)) + DigitValue(f[Len(f)])

\* str::parse::<f64>() on a field made of digits, signs and other characters
\* (no '.', no exponent, no "inf" or "nan"): Ok for an optional sign followed
\* by one or more digits, Err otherwise; nothing is trimmed
ParseF64(f) ==
    LET signed == f # <<>> /\ f[1] \in {"+", "-"}
        digits == IF signed THEN SubSeq(f, 2, Len(f)) ELSE f
    IN  IF digits # <<>> /\ \A i \in 1..Len(digits) : digits[i] \in DigitChars
        THEN [ok |-> TRUE,
              num |-> IF signed /\ f[1] = "-" THEN F64(-Decimal(digits))
                      ELSE F64(Decimal(digits))]
        ELSE [ok |-> FALSE, num |-> NaN]

\* the body of for line in lines, for a line read without error: what it does
\* to the two vectors, or that line[1] is out of bounds
ParseLine(l, inputs, outputs) ==
    LET fields == Split(l)
        output == ParseF64(fields[1])
    IN  IF ~output.ok
        THEN [panic |-> FALSE, input_vec |-> inputs, output_vec |-> outputs]
        ELSE IF Len(fields) < 2
        THEN [panic |-> TRUE, input_vec |-> inputs, output_vec |-> outputs]
        ELSE LET input == ParseF64(fields[2])
             IN  IF ~input.ok
                 THEN [panic |-> FALSE, input_vec |-> inputs, output_vec |-> outputs]
                 ELSE [panic |-> FALSE,
                       input_vec |-> Append(inputs, input.num),
                       output_vec |-> Append(outputs, output.num)]

\* add_row
AddRowTo(ds, input, output) ==
    [input |-> Append(ds.input, input),
     output |-> Append(ds.output, output),
     size |-> ds.size + 1]

\* the mean and the "standard deviation" normalize computes for a column:
\* sqrt(sum((x - mean)^2)) / size
ColumnMean(col, size) == Div(Sum(col), AsF64(size))
ColumnStdDev(col, size) ==
    CHOOSE std_dev \in
        {Div(Sqrt(Sum([i \in 1..Len(col) |-> Powf2(Sub(col[i], mean))])), AsF64(size)) :
            mean \in {ColumnMean(col, size)}} : TRUE

\* the normalized column collected back to front
NormalizeColumnReversed(col, size) ==
    CHOOSE normalized \in
        {[i \in 1..Len(col) |-> Div(Sub(col[Len(col) + 1 - i], mean), std_dev)] :
            mean \in {ColumnMean(col, size)},
            std_dev \in {ColumnStdDev(col, size)}} : TRUE

\* the column after .iter().map(|x| (x - mean) / std_dev).collect()
NormalizeColumn(col, size) ==
    CHOOSE normalized \in
        {[i \in 1..Len(col) |-> Div(Sub(col[i], mean), std_dev)] :
            mean \in {ColumnMean(col, size)},
            std_dev \in {ColumnStdDev(col, size)}} : TRUE

\* DataSet::normalize
Normalize(ds) ==
    [input |-> NormalizeColumn(ds.input, ds.size),
     output |-> NormalizeColumn(ds.output, ds.size),
     size |-> ds.size]

\* the dataset holds only values of the model's number domain
Representable(ds) ==
    /\ \A i \in 1..Len(ds.input) : ~IsUndef(ds.input[i])
    /\ \A i \in 1..Len(ds.output) : ~IsUndef(ds.output[i])

-----------------------------------------------------------------------------
(* libs/models/lineal_regression.rs *)

\* LinealRegression::new
NewModel(options) == [b |-> Zero, w |-> Zero, cost |-> Zero, options |-> options]

\* fit with the cost taken at the (b, w) the call started from
FitResultStaleCost(m, ds) ==
    CHOOSE fitted \in
        UNION UNION {{{
            [model |-> [b |-> bw[1], w |-> bw[2], cost |-> cost, options |-> m.options],
             training_data |-> trained] :
              cost \in {CalculateCost(m.b, m.w, trained)}} :
              bw \in {GradientDescent(m.options.epochs, m.options.learning_rate,
                                      m.b, m.w, trained)}} :
              trained \in {IF m.options.nornalize THEN Normalize(ds) ELSE ds}} : TRUE

\* fit: the model and its training data when it returns Ok(())
FitResult(m, ds) ==
    CHOOSE fitted \in
        UNION UNION {{{
            [model |-> [b |-> bw[1], w |-> bw[2], cost |-> cost, options |-> m.options],
             training_data |-> trained] :
              cost \in {CalculateCost(bw[1], bw[2], trained)}} :
              bw \in {GradientDescent(m.options.epochs, m.options.learning_rate,
                                      m.b, m.w, trained)}} :
              trained \in {IF m.options.nornalize THEN Normalize(ds) ELSE ds}} : TRUE

\* predict: self.w.mul_add(value, self.b)
Predict(m, value) == Add(Mul(m.w, value), m.b)

-----------------------------------------------------------------------------
(* libs/math/statistics.rs *)

\* s with v inserted before the first element that is not less than... after
\* the last element not greater than v (s sorted)
RECURSIVE Insert(_, _)
InsertOf(s, v) ==
    IF s = <<>> THEN <<v>>
    ELSE IF PartialCmp(v, s[Len(s)]) = "lt"
         THEN Append(Insert(SubSeq(s, 1, Len(s) - 1), v), s[Len(s)])
         ELSE Append(s, v)
Insert(s, v) == Eval2(InsertOf, s, v)

\* the order data.sort_by(|a, b| a.partial_cmp(b).unwrap()) leaves, when no
\* comparison fails
RECURSIVE SortBy(_)
SortByOf(s) == IF s = <<>> THEN <<>> ELSE Insert(SortBy(SubSeq(s, 1, Len(s) - 1)), s[Len(s)])
SortBy(s) == Eval1(SortByOf, s)

\* partial_cmp(..).unwrap() panics on a NaN operand; a sort of two or more
\* elements compares every element at least once
SortPanics(s) == Len(s) >= 2 /\ \E i \in 1..Len(s) : IsNaN(s[i])

\* fn median without the sort
MedianUnsorted(d) ==
    LET mid == Len(d) \div 2
    IN  IF SortPanics(d) \/ Len(d) = 0 THEN [panic |-> TRUE, ret |-> NaN]
        ELSE IF Len(d) % 2 = 0
             THEN [panic |-> FALSE, ret |-> Div(Add(d[mid + 1], d[mid]), F64(2))]
             ELSE [panic |-> FALSE, ret |-> d[mid + 1]]

\* fn median: the clone is sorted, the caller's vector is not touched;
\* data[mid] of an empty vector is out of bounds
Median(d) ==
    LET mid == Len(d) \div 2
    IN  IF SortPanics(d) \/ Len(d) = 0 THEN [panic |-> TRUE, ret |-> NaN]
        ELSE CHOOSE r \in
                 {IF Len(d) % 2 = 0
                  THEN [panic |-> FALSE,
                        ret |-> Div(Add(sorted[mid + 1], sorted[mid]), F64(2))]
                  ELSE [panic |-> FALSE, ret |-> sorted[mid + 1]] :
                     sorted \in {SortBy(d)}} : TRUE

\* the body of for &value in data.iter(), on the locals
\* [mode, max_count, current, current_count]
ModeVisit(l, value) ==
    IF FEq(value, l.current)
    THEN [l EXCEPT !.current_count = l.current_count + 1]
    ELSE [mode |-> IF l.current_count > l.max_count THEN l.current ELSE l.mode,
          max_count |-> IF l.current_count > l.max_count
                        THEN l.current_count ELSE l.max_count,
          current |-> value,
          current_count |-> 1]

\* the locals after the loop has visited the first k elements of sorted
RECURSIVE ModeScan(_, _)
ModeScan(sorted, k) ==
    IF k = 0
    THEN [mode |-> sorted[1], max_count |-> 0, current |-> sorted[1], current_count |-> 0]
    ELSE CHOOSE l \in {ModeVisit(before, sorted[k]) :
                           before \in {ModeScan(sorted, k - 1)}} : TRUE

\* fn mode: data[0] of an empty vector is out of bounds
Mode(d) ==
    IF SortPanics(d) \/ Len(d) = 0 THEN [panic |-> TRUE, ret |-> NaN]
    ELSE CHOOSE r \in {[panic |-> FALSE, ret |-> ModeScan(sorted, Len(d)).mode] :
                           sorted \in {SortBy(d)}} : TRUE

\* f64::min and f64::max: a NaN operand is ignored
FMinOf(a, b) ==
    IF IsNaN(a) THEN b ELSE IF IsNaN(b) THEN a
    ELSE IF PartialCmp(a, b) = "lt" THEN a ELSE b
FMaxOf(a, b) ==
    IF IsNaN(a) THEN b ELSE IF IsNaN(b) THEN a
    ELSE IF PartialCmp(a, b) = "gt" THEN a ELSE b

FMin(a, b) == Eval2(FMinOf, a, b)
FMax(a, b) == Eval2(FMaxOf, a, b)

\* data.iter().fold(f64::INFINITY, |a, &b| a.min(b)) and its max counterpart,
\* over the first k elements
RECURSIVE FoldMinTo(_, _)
FoldMinTo(s, k) == IF k = 0 THEN PosInf ELSE FMin(FoldMinTo(s, k - 1), s[k])
FoldMin(s) == FoldMinTo(s, Len(s))
RECURSIVE FoldMaxTo(_, _)
FoldMaxTo(s, k) == IF k = 0 THEN NegInf ELSE FMax(FoldMaxTo(s, k - 1), s[k])
FoldMax(s) == FoldMaxTo(s, Len(s))

\* Statistics::new: [panic, ret]
StatisticsNew(d) ==
    CHOOSE r \in
        UNION UNION {{{
            IF median.panic \/ mode.panic THEN [panic |-> TRUE, ret |-> <<>>]
            ELSE [panic |-> FALSE,
                  ret |-> [mean |-> mean, variance |-> variance, std_dev |-> std_dev,
                           std_err |-> Div(std_dev, Sqrt(len)),
                           median |-> median.ret, mode |-> mode.ret,
                           min |-> FoldMin(d), max |-> FoldMax(d), sum |-> Sum(d),
                           count |-> Len(d)]] :
              std_dev \in {Sqrt(variance)}} :
              variance \in {Div(Sum([i \in 1..Len(d) |-> Powf2(Sub(d[i], mean))]), len)}} :
              len \in {AsF64(Len(d))},
              mean \in {Div(Sum(d), AsF64(Len(d)))},
              median \in {Median(d)},
              mode \in {Mode(d)}} : TRUE

-----------------------------------------------------------------------------
(* SpecStats: Statistics::new called on any sequence. *)

StatVals == Vals \cup {NaN, PosInf}
Sequences == UNION {[1..n -> StatVals] : n \in 0..MaxSeqLen}

InitStats ==
    /\ data \in Sequences
    /\ stats = <<>>
    /\ st_pc = "call"
    /\ training_data = DataSet(<<>>, <<>>)
    /\ GDIdle
    /\ PipelineIdle

\* let stats = Statistics::new(&data)
StatisticsNewCall ==
    /\ st_pc = "call"
    /\ \E r \in {StatisticsNew(data)} :
           IF r.panic
           THEN st_pc' = "panicked" /\ stats' = stats
           ELSE st_pc' = "returned" /\ stats' = r.ret
    /\ UNCHANGED <<data, training_data, gd_vars, pc, new_vars, model_vars>>

NextStats == StatisticsNewCall

SpecStats == InitStats /\ [][NextStats]_vars

-----------------------------------------------------------------------------
(* Spec: a program that builds a DataSet from a source, may add rows to it  *)
(* and normalize it, hands it to a LinealRegression, and fits and predicts. *)

\* the fields lines are made of, and the lines a source may hold: one or two
\* fields, or three fields
Fields == {<<>>, <<"0">>, <<"1">>, <<"x">>, <<"0", "1">>, <<"+", "1">>, <<"1", "x">>}
RECURSIVE Join(_)
Join(fs) ==
    IF Len(fs) = 1 THEN fs[1]
    ELSE Join(SubSeq(fs, 1, Len(fs) - 1)) \o <<",">> \o fs[Len(fs)]
Lines ==
    {Join(fs) : fs \in [1..1 -> Fields] \cup [1..2 -> Fields]}
    \cup {Join(fs) : fs \in [1..3 -> {<<"1">>, <<"x">>}]}

\* the values add_row is called with: those the lines parse to
RowVals == {F64(0), F64(1)}

\* the options a model is built with
FitEpochs == {0, 1}
Options ==
    [epochs : FitEpochs, learning_rate : Rates, nornalize : BOOLEAN]

Init ==
    /\ pc = "start"
    /\ training_data = DataSet(<<>>, <<>>)
    /\ line = <<>> /\ input_vec = <<>> /\ output_vec = <<>>
    /\ lineal_regression = <<>> /\ fits = 0 /\ normalize_calls = 0 /\ prediction = <<>>
    /\ GDIdle
    /\ StatsIdle

\* DataSet::new(path) where read_lines(path) is Ok: the loop is entered
DataSetNewOpen ==
    /\ pc = "start"
    /\ pc' = "reading"
    /\ input_vec' = <<>> /\ output_vec' = <<>> /\ line' = <<>>
    /\ UNCHANGED <<training_data, model_vars, gd_vars, stat_vars>>

\* DataSet::new(path) where read_lines(path) is Err: an empty DataSet
DataSetNewUnopenable ==
    /\ pc = "start"
    /\ pc' = "dataset"
    /\ training_data' = [input |-> <<>>, output |-> <<>>, size |-> 0]
    /\ UNCHANGED <<new_vars, model_vars, gd_vars, stat_vars>>

\* the iterator yields Ok(ip)
NextLine ==
    /\ pc = "reading"
    /\ Len(input_vec) < MaxLen
    /\ \E l \in Lines : line' = l
    /\ pc' = "parsing"
    /\ UNCHANGED <<training_data, input_vec, output_vec, model_vars, gd_vars, stat_vars>>

\* the iterator yields Err(_): if let Ok(ip) = line skips it
NextLineError ==
    /\ pc = "reading"
    /\ UNCHANGED vars

\* the body of the loop on the line in hand
ParseLineStep ==
    /\ pc = "parsing"
    /\ \E r \in {ParseLine(line, input_vec, output_vec)} :
           /\ pc' = IF r.panic THEN "panicked" ELSE "reading"
           /\ input_vec' = r.input_vec
           /\ output_vec' = r.output_vec
    /\ UNCHANGED <<line, training_data, model_vars, gd_vars, stat_vars>>

\* the iterator is exhausted: the DataSet is returned
DataSetNewReturn ==
    /\ pc = "reading"
    /\ training_data' = [size |-> Len(input_vec), input |-> input_vec,
                         output |-> output_vec]
    /\ pc' = "dataset"
    /\ line' = <<>> /\ input_vec' = <<>> /\ output_vec' = <<>>
    /\ UNCHANGED <<model_vars, gd_vars, stat_vars>>

\* training_data.add_row(input, output): add_row is private to DataSet, and a
\* dataset moved into LinealRegression::new is out of the reach of its callers
AddRow ==
    /\ pc = "dataset"
    /\ training_data.size < MaxLen
    /\ \E input \in RowVals, output \in RowVals :
          training_data' = AddRowTo(training_data, input, output)
    /\ UNCHANGED <<pc, new_vars, model_vars, gd_vars, stat_vars>>

\* training_data.normalize()
NormalizeCall ==
    /\ pc \in {"dataset", "model"}
    /\ \E normalized \in {Normalize(training_data)} :
          /\ Representable(normalized)
          /\ training_data' = normalized
    /\ UNCHANGED <<pc, new_vars, model_vars, gd_vars, stat_vars>>

\* LinealRegression::new(training_data, options)
LinealRegressionNew ==
    /\ pc = "dataset"
    /\ \E options \in Options : lineal_regression' = NewModel(options)
    /\ pc' = "model"
    /\ UNCHANGED <<training_data, fits, normalize_calls, prediction, new_vars, gd_vars,
                   stat_vars>>

ModelRepresentable(m) == ~IsUndef(m.b) /\ ~IsUndef(m.w) /\ ~IsUndef(m.cost)

\* lineal_regression.fit()
Fit ==
    /\ pc = "model"
    /\ fits < MaxFits
    /\ \E r \in {FitResult(lineal_regression, training_data)} :
           /\ Representable(r.training_data)
           /\ ModelRepresentable(r.model)
           /\ lineal_regression' = r.model
           /\ training_data' = r.training_data
    /\ fits' = fits + 1
    /\ normalize_calls' = IF lineal_regression.options.nornalize
                           THEN normalize_calls + 1 ELSE normalize_calls
    /\ UNCHANGED <<pc, prediction, new_vars, gd_vars, stat_vars>>

\* lineal_regression.predict(value)
PredictCall ==
    /\ pc = "model"
    /\ \E value \in Vals :
          \E predicted \in {Predict(lineal_regression, value)} :
             /\ ~IsUndef(predicted)
             /\ prediction' = predicted
    /\ UNCHANGED <<pc, training_data, lineal_regression, fits, normalize_calls, new_vars, gd_vars,
                   stat_vars>>

Next ==
    \/ DataSetNewOpen
    \/ DataSetNewUnopenable
    \/ NextLine
    \/ NextLineError
    \/ ParseLineStep
    \/ DataSetNewReturn
    \/ AddRow
    \/ NormalizeCall
    \/ LinealRegressionNew
    \/ Fit
    \/ PredictCall

Spec == Init /\ [][Next]_vars

-----------------------------------------------------------------------------
(* Properties. *)

\* the residual of sample i as the specification states it: the sample's
\* input is the feature x, its output the label y
ResidualOfSample(b, w, ds, i) == Sub(Add(b, Mul(w, ds.input[i])), ds.output[i])

\* sum((b + w*x_i - y_i)^2) / (2n)
MeanSquaredError(b, w, ds) ==
    Div(Sum([i \in 1..ds.size |-> Powf2(ResidualOfSample(b, w, ds, i))]),
        Mul(F64(2), AsF64(ds.size)))

\* (b, w) -> (b - lr*G_b/n, w - lr*G_w/n), G_b = sum(b + w*x_i - y_i),
\* G_w = sum((b + w*x_i - y_i) * x_i)
BatchStep(b, w, lr, ds) ==
    LET n == AsF64(ds.size)
        G_b == Sum([i \in 1..ds.size |-> ResidualOfSample(b, w, ds, i)])
        G_w == Sum([i \in 1..ds.size |->
                      Mul(ResidualOfSample(b, w, ds, i), ds.input[i])])
    IN  <<Sub(b, Div(Mul(lr, G_b), n)), Sub(w, Div(Mul(lr, G_w), n))>>

RECURSIVE BatchDescent(_, _, _, _, _)
BatchDescent(n, lr, b, w, ds) ==
    IF n = 0 THEN <<b, w>>
    ELSE LET prev == BatchDescent(n - 1, lr, b, w, ds)
         IN  BatchStep(prev[1], prev[2], lr, ds)

\* C1: for a dataset with n > 0 samples, calculate_cost(b, w, data) is the sum
\* over the samples of (b + w*x_i - y_i)^2 divided by 2n, x_i the sample's
\* input and y_i its output.
C1_CostIsMeanSquaredError ==
    (gd_pc \in {"call_gd", "loop", "returned"} /\ training_data.size > 0)
        => cost_result = MeanSquaredError(initial_bias, initial_weight, training_data)

\* C2: for a dataset with n > 0 samples, gradient_descent returns after exactly
\* `epochs` iterations the result of applying `epochs` times, from (b0, w0), the
\* simultaneous step (b, w) -> (b - lr*G_b/n, w - lr*G_w/n) with x_i the
\* sample's input and y_i its output.
C2_DescentIsBatchUpdate ==
    (gd_pc = "returned" /\ training_data.size > 0)
        => /\ iter = num_iterations
           /\ gd_result = BatchDescent(num_iterations, learning_rate, initial_bias,
                                       initial_weight, training_data)

\* C3 as stated: for every dataset of any size n >= 0 and finite initial bias
\* and weight, gradient_descent with learning_rate = 0 returns exactly
\* (initial_bias, initial_weight).
C3_ZeroRateReturnsInitial ==
    (gd_pc = "returned" /\ learning_rate = Zero
        /\ IsFinite(initial_bias) /\ IsFinite(initial_weight))
        => gd_result = <<initial_bias, initial_weight>>

\* the gradient sums of the first iteration are finite numbers
GradientsFinite ==
    /\ IsFinite(BiasGradient(initial_bias, initial_weight, training_data))
    /\ IsFinite(WeightGradient(initial_bias, initial_weight, training_data))

\* C3 amended: with learning_rate = 0 and finite initial bias and weight,
\* gradient_descent returns exactly (initial_bias, initial_weight) when
\* epochs = 0, or when the dataset has n > 0 samples and its gradient sums are
\* finite; on an empty dataset with epochs >= 1 it returns (NaN, NaN).
C3_ZeroRateReturnsInitialAmended ==
    (gd_pc = "returned" /\ learning_rate = Zero
        /\ IsFinite(initial_bias) /\ IsFinite(initial_weight))
        => /\ (num_iterations = 0 \/ (training_data.size > 0 /\ GradientsFinite))
                => gd_result = <<initial_bias, initial_weight>>
           /\ (num_iterations >= 1 /\ training_data.size = 0)
                => gd_result = <<NaN, NaN>>

\* gradient_descent has run at least one iteration at learning_rate = 0 on a
\* dataset with mismatched samples and returned the initial parameters
C3_Witness ==
    /\ gd_pc = "returned" /\ learning_rate = Zero
    /\ num_iterations > 0 /\ training_data.size = MaxLen
    /\ BiasGradient(initial_bias, initial_weight, training_data) # Zero
    /\ initial_bias # Zero
    /\ gd_result = <<initial_bias, initial_weight>>

AllFinite(s) == \A i \in 1..Len(s) : IsFinite(s[i])
Range(s) == {s[i] : i \in 1..Len(s)}
Below(s, v) == Cardinality({i \in 1..Len(s) : PartialCmp(s[i], v) = "lt"})
UpTo(s, v) == Cardinality({i \in 1..Len(s) : PartialCmp(s[i], v) \in {"lt", "eq"}})
Occurrences(s, v) == Cardinality({i \in 1..Len(s) : s[i] = v})

\* the k-th element (from 1) of s in sorted order
KthSmallest(s, k) == CHOOSE v \in Range(s) : Below(s, v) < k /\ k <= UpTo(s, v)

\* the middle element of the sorted sequence, or the average of the two
\* central ones
MiddleOfSorted(s) ==
    IF Len(s) % 2 = 1 THEN KthSmallest(s, (Len(s) + 1) \div 2)
    ELSE Div(Add(KthSmallest(s, Len(s) \div 2), KthSmallest(s, Len(s) \div 2 + 1)),
             F64(2))

\* the value of the longest run of equal values of the sorted sequence, the
\* smallest such value when several runs are longest
LongestRunValue(s) ==
    LET longest == {v \in Range(s) : \A u \in Range(s) : Occurrences(s, u) <= Occurrences(s, v)}
    IN  CHOOSE v \in longest : \A u \in longest : PartialCmp(v, u) \in {"lt", "eq"}

\* C6: for a non-empty sequence of finite numbers, the mode computed by
\* Statistics::new is the value of the longest run of equal values in the
\* sorted sequence, wherever the run lies, the smallest value on a tie.
C6_ModeIsLongestRun ==
    (st_pc = "returned" /\ Len(data) > 0 /\ AllFinite(data))
        => stats.mode = LongestRunValue(data)

\* C7: for a non-empty sequence of finite numbers in any order, the median
\* computed by Statistics::new is the middle element of the sorted sequence
\* (odd count) or the average of its two central elements (even count), and
\* the call returns with the caller's sequence unchanged.
C7_MedianIsMiddleOfSorted ==
    [][(st_pc = "call" /\ Len(data) > 0 /\ AllFinite(data))
        => /\ st_pc' = "returned"
           /\ data' = data
           /\ stats'.median = MiddleOfSorted(data)]_vars

\* Statistics::new has returned the median of an unsorted sequence of even
\* length whose two central elements differ
C7_Witness ==
    /\ st_pc = "returned" /\ AllFinite(data)
    /\ Len(data) = 4
    /\ PartialCmp(data[1], data[2]) = "gt"
    /\ KthSmallest(data, 2) # KthSmallest(data, 3)
    /\ stats.median = MiddleOfSorted(data)
    /\ stats.median # MedianUnsorted(data).ret

\* C10: Statistics::new on a non-empty sequence that holds NaN or another
\* non-finite value returns a value and does not panic.
C10_NonFiniteNeverPanics ==
    (Len(data) > 0 /\ ~AllFinite(data) /\ st_pc # "call") => st_pc = "returned"

\* the mean and the population standard deviation of a column:
\* sqrt(sum((x - mean)^2) / n)
MeanOf(col) == Div(Sum(col), AsF64(Len(col)))
PopulationStdDev(col) ==
    Sqrt(Div(Sum([i \in 1..Len(col) |-> Powf2(Sub(col[i], MeanOf(col)))]),
             AsF64(Len(col))))
SumOfSquares(col) == Sum([i \in 1..Len(col) |-> Powf2(col[i])])
NonConstant(col) == \E i, j \in 1..Len(col) : col[i] # col[j]

\* mean 0, population standard deviation 1, squares summing to n
Standardized(col) ==
    /\ MeanOf(col) = Zero
    /\ PopulationStdDev(col) = F64(1)
    /\ SumOfSquares(col) = AsF64(Len(col))

\* C4: for a dataset with n > 0 samples and no constant column, after
\* DataSet::normalize the inputs and the outputs each have mean 0 and
\* population standard deviation 1: the squares of each column sum to n.
C4_NormalizeStandardizes ==
    [][(NormalizeCall /\ training_data.size > 0
            /\ AllFinite(training_data.input) /\ AllFinite(training_data.output)
            /\ NonConstant(training_data.input) /\ NonConstant(training_data.output))
        => /\ Standardized(training_data'.input)
           /\ Standardized(training_data'.output)]_vars

\* the two fields of a line that is two comma-separated numeric fields
TwoFields(l) == Len(Split(l)) = 2
BothNumeric(l) == ParseF64(Split(l)[1]).ok /\ ParseF64(Split(l)[2]).ok

\* C5: DataSet::new on an openable source never fails: a line that parses as
\* two comma-separated numeric fields appends its second field to the inputs
\* and its first to the outputs, in line order; a line with a non-numeric
\* first or second field, or with fewer than two fields, is skipped, changing
\* neither column and raising no error; the DataSet returned holds exactly
\* the samples collected.
C5_NewSkipsMalformedLines ==
    [][/\ (pc = "parsing" /\ pc' # "parsing")
            => /\ pc' = "reading"
               /\ (TwoFields(line) /\ BothNumeric(line))
                    => /\ input_vec' = Append(input_vec, ParseF64(Split(line)[2]).num)
                       /\ output_vec' = Append(output_vec, ParseF64(Split(line)[1]).num)
               /\ (Len(Split(line)) < 2 \/ (TwoFields(line) /\ ~BothNumeric(line)))
                    => /\ input_vec' = input_vec
                       /\ output_vec' = output_vec
       /\ (pc = "reading" /\ pc' = "dataset")
            => training_data' = DataSet(input_vec, output_vec)]_vars

\* input.len() == output.len() == size
LengthsAgree(ds) == Len(ds.input) = ds.size /\ Len(ds.output) = ds.size

\* after has as many values as before, and where before's values are finite
\* and not all equal they stand in after in the same relative order
SameOrder(before, after) ==
    /\ Len(after) = Len(before)
    /\ (AllFinite(before) /\ NonConstant(before))
        => \A i, j \in 1..Len(before) :
              PartialCmp(after[i], after[j]) = PartialCmp(before[i], before[j])

\* after is before with one value pushed at the end
OneRowAdded(before, after) ==
    Len(after) = Len(before) + 1 /\ SubSeq(after, 1, Len(before)) = before

\* C8: after any sequence of DataSet::new, add_row, normalize and fit the
\* dataset has input.len() == output.len() == size, and normalize and fit
\* preserve the number and the order of the samples: every operation on a
\* dataset either pushes one row at the end (add_row) or keeps the number
\* and the order of the samples.
C8_LengthsAgreeOrderKept ==
    [][/\ pc' \in {"dataset", "model"} => LengthsAgree(training_data')
       /\ pc \in {"dataset", "model"}
            => \/ /\ training_data'.size = training_data.size + 1
                  /\ OneRowAdded(training_data.input, training_data'.input)
                  /\ OneRowAdded(training_data.output, training_data'.output)
               \/ /\ training_data'.size = training_data.size
                  /\ SameOrder(training_data.input, training_data'.input)
                  /\ SameOrder(training_data.output, training_data'.output)]_vars

\* fit has normalized a dataset of MaxLen samples, built by DataSet::new and
\* add_row, whose inputs ascend and whose outputs descend
C8_Witness ==
    /\ pc = "model" /\ fits > 0 /\ lineal_regression.options.nornalize
    /\ training_data.size = MaxLen /\ LengthsAgree(training_data)
    /\ AllFinite(training_data.input) /\ AllFinite(training_data.output)
    /\ PartialCmp(training_data.input[1], training_data.input[MaxLen]) = "lt"
    /\ PartialCmp(training_data.output[1], training_data.output[MaxLen]) = "gt"
    /\ training_data.input[1] \notin RowVals

\* C9: fit returns Ok, and then the training data has been normalized by the
\* call if and only if options.nornalize, (b, w) is gradient_descent run for
\* options.epochs iterations at options.learning_rate from the (b, w) before
\* the call over that training data, and cost is calculate_cost of the stored
\* (b, w) on the same data.
C9_FitTrainsOnOwnedData ==
    [][(pc = "model" /\ fits' = fits + 1)
        => /\ pc' = "model"
           /\ training_data' = IF lineal_regression.options.nornalize
                                THEN Normalize(training_data) ELSE training_data
           /\ <<lineal_regression'.b, lineal_regression'.w>> =
                  GradientDescent(lineal_regression.options.epochs,
                                  lineal_regression.options.learning_rate,
                                  lineal_regression.b, lineal_regression.w,
                                  training_data')
           /\ lineal_regression'.cost =
                  CalculateCost(lineal_regression'.b, lineal_regression'.w,
                                training_data')
           /\ lineal_regression'.options = lineal_regression.options]_vars

\* a second fit has started from a weight the first fit moved, on normalized
\* data, and stored a finite cost that is not the cost of the zero model
C9_Witness ==
    /\ pc = "model" /\ fits = 2
    /\ lineal_regression.options.nornalize
    /\ lineal_regression.options.epochs = 1
    /\ lineal_regression.w # Zero /\ IsFinite(lineal_regression.w)
    /\ IsFinite(lineal_regression.cost)
    /\ lineal_regression.cost # CalculateCost(Zero, Zero, training_data)

\* C11: over any sequence of fit and predict calls on a model, the values of
\* the owned dataset are replaced by normalization at most once: a fit that
\* follows a fit that normalized does not normalize again and leaves the
\* inputs and outputs unchanged, and predict leaves them unchanged.
C11_NormalizedAtMostOnce ==
    [][(pc = "model" /\ training_data.size > 0
            /\ AllFinite(training_data.input) /\ AllFinite(training_data.output))
        => /\ normalize_calls' <= 1
           /\ (fits' = fits + 1 /\ normalize_calls >= 1)
                => training_data' = training_data
           /\ prediction' # prediction => training_data' = training_data]_vars

=============================================================================
